---- MODULE Spec2Model ----
(***************************************************************************)
(* The dependency explorer of src/src/App.jsx: the Override Applier        *)
(* (applyOverrides) and the Graph Builder (buildDepsMaps), run on parsed   *)
(* JSON values that live in an object heap, so that sharing, copying and   *)
(* mutation of the arguments are visible.                                  *)
(***************************************************************************)
EXTENDS Integers, Sequences, FiniteSets, TLC

(***************************************************************************)
(* Strings are sequences of characters.                                    *)
(***************************************************************************)
sEmpty == <<>>
sA == <<"A">>
sB == <<"B">>
sC == <<"C">>
sD == <<"D">>
sZ == <<"Z">>
sBold == <<"B", "_", "o">>
sBnew == <<"B", "_", "n">>
sBlank == <<" ", " ">>
sPadB == <<" ", "B", " ">>
sPadD == <<"D", " ">>

kResources == <<"r", "e", "s", "o", "u", "r", "c", "e", "s">>
kVersion == <<"v", "e", "r", "s", "i", "o", "n">>
kType == <<"t", "y", "p", "e">>
kDependencies == <<"d", "e", "p", "e", "n", "d", "e", "n", "c", "i", "e", "s">>
kAddDependencies ==
    <<"a", "d", "d", "D", "e", "p", "e", "n", "d", "e", "n", "c", "i", "e", "s">>
kReplaceDependencies ==
    <<"r", "e", "p", "l", "a", "c", "e", "D", "e", "p", "e", "n", "d", "e", "n", "c", "i", "e", "s">>

IsSpace(c) == c = " "

RECURSIVE TrimStart(_)
TrimStart(s) ==
    IF s # <<>> /\ IsSpace(Head(s)) THEN TrimStart(Tail(s)) ELSE s

RECURSIVE TrimEnd(_)
TrimEnd(s) ==
    IF s # <<>> /\ IsSpace(s[Len(s)]) THEN TrimEnd(SubSeq(s, 1, Len(s) - 1)) ELSE s

\* String.prototype.trim
Trim(s) == TrimEnd(TrimStart(s))

(***************************************************************************)
(* JavaScript values: primitives, and references to heap objects.          *)
(***************************************************************************)
Undefined == [k |-> "undefined", s |-> <<>>, a |-> 0]
Null == [k |-> "null", s |-> <<>>, a |-> 0]
Num(n) == [k |-> "number", s |-> <<>>, a |-> n]
Str(s) == [k |-> "string", s |-> s, a |-> 0]
Ref(a) == [k |-> "ref", s |-> <<>>, a |-> a]

\* typeof v
TypeOf(v) ==
    CASE v.k = "string" -> "string"
      [] v.k = "number" -> "number"
      [] v.k = "undefined" -> "undefined"
      [] OTHER -> "object"

\* the truthiness of v (what !v negates)
Truthy(v) ==
    CASE v.k = "ref" -> TRUE
      [] v.k = "string" -> v.s # <<>>
      [] v.k = "number" -> v.a # 0
      [] OTHER -> FALSE

\* a property read on null or undefined throws a TypeError
Nullish(v) == v.k \in {"null", "undefined"}

(***************************************************************************)
(* The heap: a sequence of objects, addressed by index.  An array has      *)
(* elements, an object has properties in insertion order.                  *)
(***************************************************************************)
ArrayObj(elems) == [kind |-> "array", elems |-> elems, props |-> <<>>]
PlainObj(props) == [kind |-> "object", elems |-> <<>>, props |-> props]
Prop(key, val) == [key |-> key, val |-> val]

\* Array.isArray(v)
IsArray(h, v) == v.k = "ref" /\ h[v.a].kind = "array"

IsObject(h, v) == v.k = "ref" /\ h[v.a].kind = "object"

\* the elements of an array value
Elems(h, v) == h[v.a].elems

\* the own enumerable properties of v, as {...v} and Object.entries(v) see them
OwnProps(h, v) ==
    IF IsObject(h, v) THEN h[v.a].props
    ELSE IF IsArray(h, v)
    THEN [i \in 1..Len(Elems(h, v)) |-> Prop(<<ToString(i - 1)>>, Elems(h, v)[i])]
    ELSE <<>>

HasProp(props, key) == \E i \in 1..Len(props) : props[i].key = key

PropVal(props, key) ==
    IF HasProp(props, key)
    THEN props[CHOOSE i \in 1..Len(props) : props[i].key = key].val
    ELSE Undefined

\* v[key] for a non-nullish v
Get(h, v, key) == PropVal(OwnProps(h, v), key)

\* props with key set to val: in place if present, appended if not
SetProp(props, key, val) ==
    IF HasProp(props, key)
    THEN [i \in 1..Len(props) |->
            IF props[i].key = key THEN Prop(key, val) ELSE props[i]]
    ELSE Append(props, Prop(key, val))

\* a new object on the heap, and the reference to it
Alloc(h, obj) == [heap |-> Append(h, obj), val |-> Ref(Len(h) + 1)]

\* obj[key] = val on the object at address a
Store(h, a, key, val) ==
    [h EXCEPT ![a] = PlainObj(SetProp(h[a].props, key, val))]

(***************************************************************************)
(* Maps (string -> value) and insertion-ordered sets, as Map and Set.      *)
(***************************************************************************)
EmptyMap == [x \in {} |-> {}]

\* m.set(key, val)
MapSet(m, key, val) ==
    [x \in DOMAIN m \cup {key} |-> IF x = key THEN val ELSE m[x]]

\* a build that starts a fresh set at every record: m.set(key, new Set())
EnsureKeyOverwriting(m, key) == MapSet(m, key, {})

\* if (!m.has(key)) m.set(key, new Set())
EnsureKey(m, key) == IF key \in DOMAIN m THEN m ELSE MapSet(m, key, {})

\* a set that keeps its first member only
AddMemberOnce(m, key, x) == IF m[key] = {} THEN [m EXCEPT ![key] = {x}] ELSE m

\* m.get(key).add(x)
AddMember(m, key, x) == [m EXCEPT ![key] = @ \cup {x}]

Range(seq) == {seq[i] : i \in 1..Len(seq)}

\* a list in place of the set: every add appends
SetAddAppending(set, x) == Append(set, x)

\* set.add(x) on an insertion-ordered set
SetAdd(set, x) == IF x \in Range(set) THEN set ELSE Append(set, x)

\* new Set(seq)
RECURSIVE NewSet(_)
NewSet(seq) ==
    IF seq = <<>> THEN <<>>
    ELSE SetAdd(NewSet(SubSeq(seq, 1, Len(seq) - 1)), seq[Len(seq)])

IsString(v) == TypeOf(v) = "string"

(***************************************************************************)
(* Results of a call: the heap it leaves, the value it returns, and        *)
(* whether it threw.                                                       *)
(***************************************************************************)
Ret(h, v) == [heap |-> h, val |-> v, threw |-> FALSE]
Thrown(h) == [heap |-> h, val |-> Undefined, threw |-> TRUE]

\* the read v[key]: throws on a nullish v
Read(h, v, key) == [threw |-> Nullish(v), val |-> Get(h, v, key)]

(***************************************************************************)
(* applyOverrides(raw, overrides)                                          *)
(***************************************************************************)
\* `!raw`
MissingRaw(raw) == ~Truthy(raw)

\* a guard that lets null through: typeof null is "object"
MissingOverridesButNull(overrides) ==
    overrides = Undefined \/ TypeOf(overrides) # "object"

\* `!overrides || typeof overrides !== "object"`
MissingOverrides(overrides) ==
    ~Truthy(overrides) \/ TypeOf(overrides) # "object"

\* `!add || typeof add !== "object"`
MissingAdd(add) == ~Truthy(add) \/ TypeOf(add) # "object"

\* the record itself in place of a copy of it
CloneRecordShared(h, r) == [heap |-> h, val |-> r]

\* ({ ...r })
CloneRecord(h, r) == Alloc(h, PlainObj(OwnProps(h, r)))

\* raw.resources.map((r) => ({ ...r }))
RECURSIVE CloneRecords(_, _)
CloneRecords(h, recs) ==
    IF recs = <<>> THEN [heap |-> h, vals |-> <<>>]
    ELSE LET c == CloneRecord(h, Head(recs))
             rest == CloneRecords(c.heap, Tail(recs))
         IN  [heap |-> rest.heap, vals |-> <<c.val>> \o rest.vals]

\* const patched = { ...raw, resources: raw.resources.map(...) }
ClonePatched(h, raw) ==
    LET cr == CloneRecords(h, Elems(h, Get(h, raw, kResources)))
        arr == Alloc(cr.heap, ArrayObj(cr.vals))
    IN  Alloc(arr.heap,
              PlainObj(SetProp(OwnProps(h, raw), kResources, arr.val)))

\* if (r && typeof r.type === "string") byType.set(r.type, r)
RECURSIVE IndexByType(_, _, _)
IndexByType(h, recs, byType) ==
    IF recs = <<>> THEN byType
    ELSE LET r == Head(recs)
         IN  IndexByType(h, Tail(recs),
                 IF Truthy(r) /\ TypeOf(Get(h, r, kType)) = "string"
                 THEN MapSet(byType, Get(h, r, kType).s, r)
                 ELSE byType)

\* the addition as it is written, not trimmed
AddAdditionUntrimmed(set, dep) ==
    IF TypeOf(dep) = "string" /\ Truthy(Str(Trim(dep.s)))
    THEN SetAdd(set, dep)
    ELSE set

\* if (typeof dep === "string" && dep.trim()) set.add(dep.trim())
AddAddition(set, dep) ==
    IF TypeOf(dep) = "string" /\ Truthy(Str(Trim(dep.s)))
    THEN SetAdd(set, Str(Trim(dep.s)))
    ELSE set

RECURSIVE AddAdditions(_, _)
AddAdditions(set, additions) ==
    IF additions = <<>> THEN set
    ELSE AddAdditions(AddAddition(set, Head(additions)), Tail(additions))

\* new Set(current.filter((d) => typeof d === "string"))
CurrentSet(h, r) ==
    LET d == Get(h, r, kDependencies)
        current == IF IsArray(h, d) THEN Elems(h, d) ELSE <<>>
    IN  NewSet(SelectSeq(current, IsString))

\* the body of the loop for a record r that is patched:
\* r.dependencies = [...set]
UnionDependencies(h, r, additions) ==
    LET set == AddAdditions(CurrentSet(h, r), Elems(h, additions))
        arr == Alloc(h, ArrayObj(set))
    IN  Store(arr.heap, r.a, kDependencies, arr.val)

\* an entry for a missing type creates the record
PatchEntryCreating(h, patched, byType, type, additions) ==
    IF type \notin DOMAIN byType
    THEN LET rec == Alloc(h, PlainObj(<<Prop(kType, Str(type)),
                                        Prop(kDependencies, additions)>>))
             arr == Get(h, patched, kResources).a
         IN  [rec.heap EXCEPT ![arr] = ArrayObj(Append(@.elems, rec.val))]
    ELSE UnionDependencies(h, byType[type], additions)

\* const r = byType.get(type); if (!r) continue;
PatchEntry(h, patched, byType, type, additions) ==
    IF type \notin DOMAIN byType THEN h
    ELSE UnionDependencies(h, byType[type], additions)

\* for (const [type, additions] of Object.entries(add))
RECURSIVE PatchEntries(_, _, _, _)
PatchEntries(h, patched, entries, byType) ==
    IF entries = <<>> THEN h
    ELSE LET type == Head(entries).key
             additions == Head(entries).val
             h1 == IF ~IsArray(h, additions) THEN h
                   ELSE PatchEntry(h, patched, byType, type, additions)
         IN  PatchEntries(h1, patched, Tail(entries), byType)

applyOverrides(h, raw, overrides) ==
    IF MissingRaw(raw) THEN Ret(h, raw)
    ELSE IF Read(h, raw, kResources).threw THEN Thrown(h)
    ELSE IF ~IsArray(h, Get(h, raw, kResources)) THEN Ret(h, raw)
    ELSE IF MissingOverrides(overrides) THEN Ret(h, raw)
    ELSE IF Read(h, overrides, kAddDependencies).threw THEN Thrown(h)
    ELSE LET add == Get(h, overrides, kAddDependencies)
         IN  IF MissingAdd(add) THEN Ret(h, raw)
             ELSE LET patched == ClonePatched(h, raw)
                      recs == Elems(patched.heap,
                                    Get(patched.heap, patched.val, kResources))
                      byType == IndexByType(patched.heap, recs, EmptyMap)
                  IN  Ret(PatchEntries(patched.heap, patched.val,
                                       OwnProps(h, add), byType),
                          patched.val)

(***************************************************************************)
(* buildDepsMaps(raw)                                                      *)
(***************************************************************************)
Maps(d, r, t) == [depsMap |-> d, reverseMap |-> r, threw |-> t]

\* no guard against a null record
MissingRecordUnchecked(r) == FALSE

\* `!r`
MissingRecord(r) == ~Truthy(r)

\* `typeof r.type !== "string"`
BadType(t) == TypeOf(t) # "string"

\* for (const d of deps) { if (typeof d !== "string") continue; ... }
RECURSIVE AddDeps(_, _, _)
AddDeps(deps, from, m) ==
    IF deps = <<>> THEN m
    ELSE LET d == Head(deps)
             m1 == IF TypeOf(d) # "string" THEN m
                   ELSE Maps(AddMember(m.depsMap, from, d.s),
                             AddMember(EnsureKey(m.reverseMap, d.s), d.s, from),
                             m.threw)
         IN  AddDeps(Tail(deps), from, m1)

\* a build that registers a node in the reverse map only as a dependency
EnsureSelfOmitted(reverseMap, from) == reverseMap

\* if (!reverseMap.has(from)) reverseMap.set(from, new Set())
EnsureSelf(reverseMap, from) == EnsureKey(reverseMap, from)

\* the body of the loop for a record that is not skipped
AddRecord(h, r, m) ==
    LET from == Get(h, r, kType).s
        d == Get(h, r, kDependencies)
        deps == IF IsArray(h, d) THEN Elems(h, d) ELSE <<>>
        m1 == Maps(EnsureKey(m.depsMap, from), m.reverseMap, m.threw)
        m2 == AddDeps(deps, from, m1)
    IN  Maps(m2.depsMap, EnsureSelf(m2.reverseMap, from), m2.threw)

\* for (const r of raw.resources)
RECURSIVE BuildLoop(_, _, _)
BuildLoop(h, recs, m) ==
    IF recs = <<>> \/ m.threw THEN m
    ELSE LET r == Head(recs)
             m1 == IF MissingRecord(r) THEN m
                   ELSE IF Read(h, r, kType).threw
                   THEN Maps(m.depsMap, m.reverseMap, TRUE)
                   ELSE IF BadType(Get(h, r, kType)) THEN m
                   ELSE AddRecord(h, r, m)
         IN  BuildLoop(h, Tail(recs), m1)

buildDepsMaps(h, raw) ==
    IF MissingRaw(raw) THEN Maps(EmptyMap, EmptyMap, FALSE)
    ELSE IF Read(h, raw, kResources).threw THEN Maps(EmptyMap, EmptyMap, TRUE)
    ELSE IF ~IsArray(h, Get(h, raw, kResources))
    THEN Maps(EmptyMap, EmptyMap, FALSE)
    ELSE BuildLoop(h, Elems(h, Get(h, raw, kResources)),
                   Maps(EmptyMap, EmptyMap, FALSE))

(***************************************************************************)
(* The query surface: sortAlpha, allTypes, filteredTypes, activeType,      *)
(* dependsOn and dependencyFor.                                            *)
(***************************************************************************)
\* the letters that have two cases, and the collation order of characters
\* without regard to case: white space, punctuation, digits, letters
UpperCase == <<"A", "B", "C", "D", "Z">>
LowerCase == <<"a", "b", "c", "d", "z">>
Collation == <<" ", "_", "1", "a", "b", "c", "d", "n", "o", "z">>

IsUpper(c) == \E i \in 1..Len(UpperCase) : UpperCase[i] = c

LowerChar(c) ==
    IF IsUpper(c)
    THEN LowerCase[CHOOSE i \in 1..Len(UpperCase) : UpperCase[i] = c]
    ELSE c

\* String.prototype.toLowerCase
ToLowerCase(s) == [i \in 1..Len(s) |-> LowerChar(s[i])]

\* String.prototype.includes
Includes(s, q) ==
    \E i \in 0..(Len(s) - Len(q)) : SubSeq(s, i + 1, i + Len(q)) = q

\* (s || "").trim()
normalizeType(s) == Trim(s)

\* the sign of the first difference of two sequences of weights, a proper
\* prefix coming first
RECURSIVE CompareWeights(_, _)
CompareWeights(a, b) ==
    IF a = <<>> /\ b = <<>> THEN 0
    ELSE IF a = <<>> THEN -1
    ELSE IF b = <<>> THEN 1
    ELSE IF Head(a) < Head(b) THEN -1
    ELSE IF Head(a) > Head(b) THEN 1
    ELSE CompareWeights(Tail(a), Tail(b))

Primary(c) == CHOOSE i \in 1..Len(Collation) : Collation[i] = LowerChar(c)
Tertiary(c) == IF IsUpper(c) THEN 1 ELSE 0

\* a.localeCompare(b): by letters first, and between strings with the same
\* letters the lower case before the upper case
localeCompare(a, b) ==
    LET pa == [i \in 1..Len(a) |-> Primary(a[i])]
        pb == [i \in 1..Len(b) |-> Primary(b[i])]
    IN  IF CompareWeights(pa, pb) # 0 THEN CompareWeights(pa, pb)
        ELSE CompareWeights([i \in 1..Len(a) |-> Tertiary(a[i])],
                            [i \in 1..Len(b) |-> Tertiary(b[i])])

\* x placed in a sorted sequence, after the elements it does not precede
RECURSIVE InsertSorted(_, _)
InsertSorted(x, sorted) ==
    IF sorted = <<>> THEN <<x>>
    ELSE IF localeCompare(x.s, Head(sorted).s) < 0 THEN <<x>> \o sorted
    ELSE <<Head(sorted)>> \o InsertSorted(x, Tail(sorted))

\* arr.sort((a, b) => a.localeCompare(b))
RECURSIVE SortLocale(_)
SortLocale(arr) ==
    IF arr = <<>> THEN <<>>
    ELSE InsertSorted(arr[Len(arr)], SortLocale(SubSeq(arr, 1, Len(arr) - 1)))

\* the strings of arr in the order they come
sortAlphaUnsorted(arr) ==
    LET kept == SelectSeq(arr, IsString)
    IN  [i \in 1..Len(kept) |-> kept[i].s]

\* sortAlpha(arr), a sequence of strings
sortAlpha(arr) ==
    LET sorted == SortLocale(SelectSeq(arr, IsString))
    IN  [i \in 1..Len(sorted) |-> sorted[i].s]

\* [...m.keys()] and [...set]: the members as string values, in some order
RECURSIVE Spread(_)
Spread(S) ==
    IF S = {} THEN <<>>
    ELSE LET x == CHOOSE y \in S : TRUE
         IN  <<Str(x)>> \o Spread(S \ {x})

\* a list of the forward keys only
AllKeysForward(dm, rm) == NewSet(Spread(DOMAIN dm))

\* new Set([...depsMap.keys(), ...reverseMap.keys()])
AllKeys(dm, rm) == NewSet(Spread(DOMAIN dm) \o Spread(DOMAIN rm))

allTypesOf(dm, rm) == sortAlpha(AllKeys(dm, rm))

RECURSIVE FilterIncluding(_, _)
FilterIncluding(types, q) ==
    IF types = <<>> THEN <<>>
    ELSE IF Includes(ToLowerCase(Head(types)), q)
    THEN <<Head(types)>> \o FilterIncluding(Tail(types), q)
    ELSE FilterIncluding(Tail(types), q)

\* a list cut short, as types.slice(0, n) would
FilterOrAllSliced(types, q) ==
    IF q # <<>> THEN FilterIncluding(types, q)
    ELSE SubSeq(types, 1, IF Len(types) < 2 THEN Len(types) ELSE 2)

\* q ? allTypes.filter(...) : allTypes
FilterOrAll(types, q) ==
    IF q # <<>> THEN FilterIncluding(types, q) ELSE types

filteredTypesOf(types, qry) ==
    FilterOrAll(types, ToLowerCase(normalizeType(qry)))

\* the upload variant's rule: what is typed counts when nothing is picked
activeTypeOrQuery(sel, qry) ==
    IF normalizeType(sel) # <<>> THEN normalizeType(sel) ELSE normalizeType(qry)

\* const activeType = selectedType
activeTypeOf(sel, qry) == sel

\* a lookup that spreads whatever the map returns
NeighborsUnguarded(m, t) ==
    IF t \in DOMAIN m THEN [threw |-> FALSE, val |-> Spread(m[t])]
    ELSE [threw |-> TRUE, val |-> <<>>]

\* [...(m.get(t) || [])]: spreading undefined would throw
Neighbors(m, t) ==
    IF t \in DOMAIN m THEN [threw |-> FALSE, val |-> Spread(m[t])]
    ELSE [threw |-> FALSE, val |-> <<>>]

\* activeType ? sortAlpha([...(m.get(activeType) || [])]) : []
Lookup(m, t) ==
    IF t # <<>>
    THEN [threw |-> Neighbors(m, t).threw, val |-> sortAlpha(Neighbors(m, t).val)]
    ELSE [threw |-> FALSE, val |-> <<>>]

(***************************************************************************)
(* The inputs: parsed JSON documents and overrides, laid out on the heap.  *)
(***************************************************************************)
MaxRecords == 2
MaxEntries == 2

BoundedSeq(S, n) == UNION {[1..k -> S] : k \in 0..n}

Rec(type, dk, deps) == [nul |-> FALSE, type |-> type, dk |-> dk, deps |-> deps]
NullRec == [nul |-> TRUE, type |-> Undefined, dk |-> "absent", deps |-> <<>>]

\* the records a document is made of: well-formed ones, a repeated
\* dependency and a non-string one, a missing and a non-array dependencies
\* field, a null record, and a numeric, an empty and a missing type
RecordShapes ==
    { Rec(Str(sA), "array", <<Str(sB), Str(sC)>>),
      Rec(Str(sB), "array", <<>>),
      Rec(Str(sA), "array", <<Str(sC), Num(7), Str(sC)>>),
      Rec(Str(sA), "array", <<Str(sBold)>>),
      Rec(Str(sB), "absent", <<>>),
      Rec(Str(sC), "value", <<>>),
      Rec(Num(5), "array", <<Str(sD)>>),
      Rec(Str(sEmpty), "array", <<Str(sB)>>),
      Rec(Undefined, "array", <<Str(sC)>>),
      NullRec }

DocShapes ==
    {[form |-> f, recs |-> <<>>] : f \in {"null", "undefined", "noResources", "badResources"}}
    \cup {[form |-> "document", recs |-> r] : r \in BoundedSeq(RecordShapes, MaxRecords)}

AllocRecord(h, s) ==
    LET props == IF s.type = Undefined THEN <<>> ELSE <<Prop(kType, s.type)>>
    IN  IF s.nul THEN [heap |-> h, val |-> Null]
        ELSE IF s.dk = "array"
        THEN LET arr == Alloc(h, ArrayObj(s.deps))
             IN  Alloc(arr.heap,
                       PlainObj(Append(props, Prop(kDependencies, arr.val))))
        ELSE IF s.dk = "value"
        THEN Alloc(h, PlainObj(Append(props, Prop(kDependencies, Str(sB)))))
        ELSE Alloc(h, PlainObj(props))

RECURSIVE AllocRecords(_, _)
AllocRecords(h, shapes) ==
    IF shapes = <<>> THEN [heap |-> h, vals |-> <<>>]
    ELSE LET r == AllocRecord(h, Head(shapes))
             rest == AllocRecords(r.heap, Tail(shapes))
         IN  [heap |-> rest.heap, vals |-> <<r.val>> \o rest.vals]

AllocDoc(h, d) ==
    LET version == Prop(kVersion, Str(<<"1">>))
    IN  CASE d.form = "null" -> [heap |-> h, val |-> Null]
          [] d.form = "undefined" -> [heap |-> h, val |-> Undefined]
          [] d.form = "noResources" -> Alloc(h, PlainObj(<<version>>))
          [] d.form = "badResources" ->
                Alloc(h, PlainObj(<<version, Prop(kResources, Str(sA))>>))
          [] OTHER ->
                LET rs == AllocRecords(h, d.recs)
                    arr == Alloc(rs.heap, ArrayObj(rs.vals))
                IN  Alloc(arr.heap,
                          PlainObj(<<version, Prop(kResources, arr.val)>>))

\* the additions an override entry carries: a list, or a value that is none
AdditionShapes ==
    { [isArr |-> TRUE, xs |-> <<Str(sD)>>],
      [isArr |-> TRUE, xs |-> <<Str(sPadB), Str(sBlank)>>],
      [isArr |-> TRUE, xs |-> <<Str(sC), Num(7), Str(sPadD), Str(sD)>>],
      [isArr |-> FALSE, xs |-> <<>>] }

EntryShapes ==
    {[key |-> k, adds |-> x] : k \in {sA, sB, sZ}, x \in AdditionShapes}

DistinctKeys(es) ==
    \A i, j \in 1..Len(es) : es[i].key = es[j].key => i = j

AddShapes == {es \in BoundedSeq(EntryShapes, MaxEntries) : DistinctKeys(es)}

OverridesShapes ==
    {[form |-> f, add |-> "absent", entries |-> <<>>, repl |-> FALSE] :
        f \in {"null", "undefined", "string"}}
    \cup {[form |-> "object", add |-> a, entries |-> <<>>, repl |-> r] :
            a \in {"absent", "null", "string"}, r \in BOOLEAN}
    \cup {[form |-> "object", add |-> "object", entries |-> es, repl |-> r] :
            es \in AddShapes, r \in {FALSE}}
    \cup {[form |-> "object", add |-> "object", entries |-> es, repl |-> TRUE] :
            es \in {x \in AddShapes : Len(x) <= 1}}

RECURSIVE AllocEntries(_, _)
AllocEntries(h, es) ==
    IF es = <<>> THEN [heap |-> h, props |-> <<>>]
    ELSE LET e == Head(es)
             x == IF e.adds.isArr THEN Alloc(h, ArrayObj(e.adds.xs))
                  ELSE [heap |-> h, val |-> Str(sD)]
             rest == AllocEntries(x.heap, Tail(es))
         IN  [heap |-> rest.heap, props |-> <<Prop(e.key, x.val)>> \o rest.props]

\* replaceDependencies: { A: { B_o: "B_n" } }
AllocReplace(h) ==
    LET m == Alloc(h, PlainObj(<<Prop(sBold, Str(sBnew))>>))
    IN  Alloc(m.heap, PlainObj(<<Prop(sA, m.val)>>))

AllocOverrides(h, o) ==
    CASE o.form = "null" -> [heap |-> h, val |-> Null]
      [] o.form = "undefined" -> [heap |-> h, val |-> Undefined]
      [] o.form = "string" -> [heap |-> h, val |-> Str(sA)]
      [] OTHER ->
            LET add == CASE o.add = "object" ->
                              LET es == AllocEntries(h, o.entries)
                              IN  Alloc(es.heap, PlainObj(es.props))
                         [] o.add = "null" -> [heap |-> h, val |-> Null]
                         [] o.add = "string" -> [heap |-> h, val |-> Str(sA)]
                         [] OTHER -> [heap |-> h, val |-> Undefined]
                rep == IF o.repl THEN AllocReplace(add.heap)
                       ELSE [heap |-> add.heap, val |-> Undefined]
                p1 == IF o.add = "absent" THEN <<>>
                      ELSE <<Prop(kAddDependencies, add.val)>>
                p2 == IF o.repl THEN <<Prop(kReplaceDependencies, rep.val)>>
                      ELSE <<>>
            IN  Alloc(rep.heap, PlainObj(p1 \o p2))

(***************************************************************************)
(* The state: the heap, the fetched document and overrides, the patched    *)
(* document, the document handed to the graph builder and its maps.        *)
(***************************************************************************)
VARIABLES heap, json, overrides, patched, repatched, raw, depsMap, reverseMap,
          threw, pc

(***************************************************************************)
(* The state of the App component: its useState cells, the loads in        *)
(* flight (each with the version and overrides its closure holds and its   *)
(* cancelled flag), the last thing that happened, and how the last load    *)
(* that was not cancelled ended.                                           *)
(***************************************************************************)
VARIABLES selectedVersion, availableVersions, query, selectedType,
          loadingIndex, loadingData, error, loads, indexFetch, overridesFetch,
          event, lastDocLoad

appVars == <<selectedVersion, availableVersions, query, selectedType,
             loadingIndex, loadingData, error, loads, indexFetch,
             overridesFetch, event, lastDocLoad>>

vars == <<heap, json, overrides, patched, repatched, raw, depsMap, reverseMap,
          threw, pc, appVars>>

Event(type, v, ov, cancelled, outcome, text) ==
    [type |-> type, v |-> v, ov |-> ov, cancelled |-> cancelled,
     outcome |-> outcome, text |-> text]

NoEvent == Event("none", "", Undefined, FALSE, "", <<>>)

\* the initial values of the useState cells, before any effect has run
AppCells ==
    /\ selectedVersion = "latest"
    /\ availableVersions = <<>>
    /\ query = <<>>
    /\ selectedType = <<>>
    /\ loadingIndex = TRUE
    /\ loadingData = TRUE
    /\ error = ""
    /\ loads = <<>>
    /\ indexFetch = "idle"
    /\ overridesFetch = "idle"
    /\ event = NoEvent
    /\ lastDocLoad = "none"

Init ==
    \E d \in DocShapes, o \in OverridesShapes :
        LET doc == AllocDoc(<<>>, d)
            ov == AllocOverrides(doc.heap, o)
        IN  /\ heap = ov.heap
            /\ json = doc.val
            /\ overrides = ov.val
            /\ patched = Undefined
            /\ repatched = Undefined
            /\ raw = Null
            /\ depsMap = EmptyMap
            /\ reverseMap = EmptyMap
            /\ threw = FALSE
            /\ pc = "start"
            /\ AppCells

\* const patched = applyOverrides(json, overrides)
ApplyOverrides ==
    /\ pc = "start"
    /\ LET res == applyOverrides(heap, json, overrides)
       IN  /\ heap' = res.heap
           /\ patched' = res.val
           /\ threw' = res.threw
    /\ pc' = "applied"
    /\ UNCHANGED <<json, overrides, repatched, raw, depsMap, reverseMap, appVars>>

\* applyOverrides(applyOverrides(json, overrides), overrides)
ReapplyOverrides ==
    /\ pc = "applied"
    /\ ~threw
    /\ LET res == applyOverrides(heap, patched, overrides)
       IN  /\ heap' = res.heap
           /\ repatched' = res.val
           /\ threw' = res.threw
    /\ pc' = "reapplied"
    /\ UNCHANGED <<json, overrides, patched, raw, depsMap, reverseMap, appVars>>

\* setRaw(doc), and the useMemo that follows it: buildDepsMaps(raw)
Build(doc, next) ==
    /\ raw' = doc
    /\ LET m == buildDepsMaps(heap, doc)
       IN  /\ depsMap' = m.depsMap
           /\ reverseMap' = m.reverseMap
           /\ threw' = m.threw
    /\ pc' = next
    /\ UNCHANGED <<heap, json, overrides, patched, repatched, appVars>>

\* the graph of the fetched document as it is
BuildFetched == pc = "start" /\ Build(json, "builtFetched")

\* the graph of the patched document
BuildPatched == pc = "applied" /\ ~threw /\ Build(patched, "builtPatched")

Next == ApplyOverrides \/ ReapplyOverrides \/ BuildFetched \/ BuildPatched

Spec == Init /\ [][Next]_vars

(***************************************************************************)
(* What a document says, read off the heap independently of the code.      *)
(***************************************************************************)
HasResources(h, doc) == doc.k = "ref" /\ IsArray(h, Get(h, doc, kResources))

Records(h, doc) ==
    IF HasResources(h, doc) THEN Elems(h, Get(h, doc, kResources)) ELSE <<>>

TypeOfRecord(h, r) == Get(h, r, kType)

StringTyped(h, r) == TypeOfRecord(h, r).k = "string"

NonEmptyTyped(h, r) == StringTyped(h, r) /\ TypeOfRecord(h, r).s # <<>>

DepEntries(h, r) ==
    IF IsArray(h, Get(h, r, kDependencies))
    THEN Elems(h, Get(h, r, kDependencies)) ELSE <<>>

StringsOf(vals) == {v.s : v \in {x \in Range(vals) : x.k = "string"}}

StringDeps(h, r) == StringsOf(DepEntries(h, r))

\* the records of doc that count as nodes under Counts, and their types
Nodes(h, doc, Counts(_, _)) == {r \in Range(Records(h, doc)) : Counts(h, r)}

TypesOver(h, doc, Counts(_, _)) ==
    {TypeOfRecord(h, r).s : r \in Nodes(h, doc, Counts)}

ForwardOver(h, doc, t, Counts(_, _)) ==
    UNION {StringDeps(h, r) :
             r \in {x \in Nodes(h, doc, Counts) : TypeOfRecord(h, x).s = t}}

ForwardMapOver(h, doc, Counts(_, _)) ==
    [t \in TypesOver(h, doc, Counts) |-> ForwardOver(h, doc, t, Counts)]

ReverseMapOver(h, doc, Counts(_, _)) ==
    LET types == TypesOver(h, doc, Counts)
        deps == UNION {ForwardOver(h, doc, t, Counts) : t \in types}
    IN  [d \in types \cup deps |->
            {t \in types : d \in ForwardOver(h, doc, t, Counts)}]

Types(h, doc) == TypesOver(h, doc, StringTyped)
ForwardOf(h, doc, t) == ForwardOver(h, doc, t, StringTyped)

\* every string that is a dependency entry of any record of doc
AllDepStrings(h, doc) == UNION {StringDeps(h, r) : r \in Range(Records(h, doc))}

HasAdd(h, ov) == IsObject(h, ov) /\ IsObject(h, Get(h, ov, kAddDependencies))

AddEntries(h, ov) ==
    IF HasAdd(h, ov) THEN OwnProps(h, Get(h, ov, kAddDependencies)) ELSE <<>>

AddKeys(h, ov) == {e.key : e \in Range(AddEntries(h, ov))}

HasReplace(h, ov) ==
    IsObject(h, ov) /\ IsObject(h, Get(h, ov, kReplaceDependencies))

ReplaceEntries(h, ov) ==
    IF HasReplace(h, ov) THEN OwnProps(h, Get(h, ov, kReplaceDependencies))
    ELSE <<>>

\* the trimmed, non-empty string entries of an additions value
Trimmed(h, xs) ==
    IF IsArray(h, xs)
    THEN {Trim(x) : x \in StringsOf(Elems(h, xs))} \ {<<>>}
    ELSE {}

\* the additions that an overrides value holds for type t
AdditionsFor(h, ov, t) ==
    UNION {Trimmed(h, e.val) : e \in {x \in Range(AddEntries(h, ov)) : x.key = t}}

\* the structure below a value: what structural equality compares
RECURSIVE Deep(_, _)
Deep(h, v) ==
    IF v.k # "ref" THEN [kind |-> "value", prim |-> v, items |-> <<>>]
    ELSE IF h[v.a].kind = "array"
    THEN [kind |-> "array", prim |-> Undefined,
          items |-> [i \in 1..Len(h[v.a].elems) |->
                        [key |-> <<>>, val |-> Deep(h, h[v.a].elems[i])]]]
    ELSE [kind |-> "object", prim |-> Undefined,
          items |-> [i \in 1..Len(h[v.a].props) |->
                        [key |-> h[v.a].props[i].key,
                         val |-> Deep(h, h[v.a].props[i].val)]]]

Built == pc \in {"builtFetched", "builtPatched"}
Applied == pc \in {"applied", "reapplied", "builtPatched"}

(***************************************************************************)
(* C1.  For every document whose resources is a sequence, buildDepsMaps    *)
(* returns a forward map whose value at each record type t is exactly the  *)
(* union of the string dependency entries of all records of type t         *)
(* (records of the same type accumulate), and a reverse map whose value at *)
(* d is exactly the set of types having a record that lists d.  For the    *)
(* records A->[B,C], B->[] that is forward {A:{B,C}, B:{}} and reverse     *)
(* {B:{A}, C:{A}, A:{}}.                                                   *)
(***************************************************************************)
IsExampleAB(h, doc) ==
    /\ Len(Records(h, doc)) = 2
    /\ Deep(h, Records(h, doc)[1]).items =
         << [key |-> kType, val |-> Deep(h, Str(sA))],
            [key |-> kDependencies,
             val |-> [kind |-> "array", prim |-> Undefined,
                      items |-> << [key |-> <<>>, val |-> Deep(h, Str(sB))],
                                   [key |-> <<>>, val |-> Deep(h, Str(sC))] >>]] >>
    /\ Deep(h, Records(h, doc)[2]).items =
         << [key |-> kType, val |-> Deep(h, Str(sB))],
            [key |-> kDependencies,
             val |-> [kind |-> "array", prim |-> Undefined, items |-> <<>>]] >>

C1_ForwardAndReverseExact ==
    (Built /\ HasResources(heap, raw)) =>
        /\ depsMap = ForwardMapOver(heap, raw, StringTyped)
        /\ reverseMap = ReverseMapOver(heap, raw, StringTyped)
        /\ IsExampleAB(heap, raw) =>
             /\ depsMap = (sA :> {sB, sC}) @@ (sB :> {})
             /\ reverseMap = (sB :> {sA}) @@ (sC :> {sA}) @@ (sA :> {})

\* two records of one type with different dependencies have been built
C1_Witness ==
    /\ Built
    /\ \E r1, r2 \in Nodes(heap, raw, StringTyped) :
         /\ TypeOfRecord(heap, r1) = TypeOfRecord(heap, r2)
         /\ ~(StringDeps(heap, r1) \subseteq StringDeps(heap, r2))
         /\ ~(StringDeps(heap, r2) \subseteq StringDeps(heap, r1))
         /\ depsMap[TypeOfRecord(heap, r1).s] =
              StringDeps(heap, r1) \cup StringDeps(heap, r2)

(***************************************************************************)
(* C2, as stated.  For every document, after buildDepsMaps every identity  *)
(* that appears as any dependencies entry is a key of the reverse map, and *)
(* every identity that appears as a record type is a key of both maps.     *)
(***************************************************************************)
C2_EveryEntryIsAKey ==
    Built =>
        /\ AllDepStrings(heap, raw) \subseteq DOMAIN reverseMap
        /\ Types(heap, raw) \subseteq DOMAIN depsMap
        /\ Types(heap, raw) \subseteq DOMAIN reverseMap

(***************************************************************************)
(* C2, amended.  After buildDepsMaps every string that is a dependencies   *)
(* entry of a record whose type is a string is a key of the reverse map,   *)
(* and every string that is a record type is a key of both maps; the       *)
(* entries of a record that is skipped for its type are not registered.    *)
(***************************************************************************)
C2_EntriesOfTypedRecordsAreKeys ==
    Built =>
        /\ \A r \in Nodes(heap, raw, StringTyped) :
             StringDeps(heap, r) \subseteq DOMAIN reverseMap
        /\ Types(heap, raw) \subseteq DOMAIN depsMap
        /\ Types(heap, raw) \subseteq DOMAIN reverseMap

\* a type nothing depends on and a dependency that is no type are both keys
C2_Witness ==
    /\ Built
    /\ \E t \in Types(heap, raw) : t \in DOMAIN reverseMap /\ reverseMap[t] = {}
    /\ \E d \in DOMAIN reverseMap : d \notin Types(heap, raw)

(***************************************************************************)
(* C3.  For a document with a resources sequence and overrides whose       *)
(* addDependencies maps a record type t of the document to a sequence xs:  *)
(* after buildDepsMaps(applyOverrides(D, overrides)) the forward set of t  *)
(* is the string dependencies of t's records united with the trimmed,      *)
(* non-empty string entries of xs; the dependency list of the patched      *)
(* record has no duplicates and no non-string entries; and the forward set *)
(* of every type not named in addDependencies is as in buildDepsMaps(D).   *)
(***************************************************************************)
\* the record that byType holds for type t: the last one of that type
PatchedRecord(h, doc, t) ==
    LET recs == Records(h, doc)
        last == CHOOSE i \in 1..Len(recs) :
                   /\ TypeOfRecord(h, recs[i]) = Str(t)
                   /\ \A j \in (i + 1)..Len(recs) : TypeOfRecord(h, recs[j]) # Str(t)
    IN  recs[last]

NoDuplicates(seq) == \A i, j \in 1..Len(seq) : seq[i] = seq[j] => i = j

C3_AddDependenciesUnion ==
    (pc = "builtPatched" /\ HasResources(heap, json) /\ HasAdd(heap, overrides)) =>
        /\ \A e \in Range(AddEntries(heap, overrides)) :
             (e.key \in Types(heap, json) /\ IsArray(heap, e.val)) =>
                /\ e.key \in DOMAIN depsMap
                /\ depsMap[e.key] =
                     ForwardOf(heap, json, e.key) \cup Trimmed(heap, e.val)
                /\ LET r == PatchedRecord(heap, patched, e.key)
                   IN  /\ IsArray(heap, Get(heap, r, kDependencies))
                       /\ NoDuplicates(DepEntries(heap, r))
                       /\ \A d \in Range(DepEntries(heap, r)) : d.k = "string"
        /\ \A t \in Types(heap, json) \ AddKeys(heap, overrides) :
             /\ t \in DOMAIN depsMap
             /\ depsMap[t] = buildDepsMaps(heap, json).depsMap[t]

\* an addition that needed trimming has become a new dependency of its type,
\* in a document that has another type the overrides do not name
C3_Witness ==
    /\ pc = "builtPatched"
    /\ \E e \in Range(AddEntries(heap, overrides)) :
         /\ e.key \in Types(heap, json)
         /\ IsArray(heap, e.val)
         /\ \E x \in StringsOf(Elems(heap, e.val)) :
              /\ Trim(x) # x
              /\ Trim(x) \notin ForwardOf(heap, json, e.key)
              /\ Trim(x) \in depsMap[e.key]
    /\ Types(heap, json) \ AddKeys(heap, overrides) # {}

(***************************************************************************)
(* C4.  For overrides whose replaceDependencies maps an existing record    *)
(* type t to a substitution mapping m, every dependency entry of t equal   *)
(* to a key k of m is replaced by m[k] and every other entry passes        *)
(* through, so that the forward set of t after buildDepsMaps is the        *)
(* substituted dependencies of t (with the additions for t, which are      *)
(* applied afterwards); for {A:[B_old]} and {A:{B_old:B_new}} it is        *)
(* {B_new}.  This holds also without an addDependencies section.           *)
(***************************************************************************)
Substitute(h, m, d) ==
    IF HasProp(OwnProps(h, m), d) /\ PropVal(OwnProps(h, m), d).k = "string"
    THEN PropVal(OwnProps(h, m), d).s
    ELSE d

C4_ReplaceDependencies ==
    (pc = "builtPatched" /\ HasResources(heap, json)) =>
        \A e \in Range(ReplaceEntries(heap, overrides)) :
            (e.key \in Types(heap, json) /\ IsObject(heap, e.val)) =>
                /\ e.key \in DOMAIN depsMap
                /\ depsMap[e.key] =
                     {Substitute(heap, e.val, d) : d \in ForwardOf(heap, json, e.key)}
                     \cup AdditionsFor(heap, overrides, e.key)

(***************************************************************************)
(* C5.  Overrides never create a node: the patched document has as many    *)
(* records as the document, with the same type values in the same places   *)
(* (a null record, which has no type, is copied to a record with no type); *)
(* and when an override key z appears nowhere in the document, neither as  *)
(* a type nor as a dependency, its entry changes nothing: if no key of     *)
(* addDependencies is a type of the document, every record has the same    *)
(* type and the same dependencies as before, and unless z is among the     *)
(* additions made to an existing type, z is a key of neither map.          *)
(***************************************************************************)
Nowhere(h, doc, z) == z \notin Types(h, doc) \cup AllDepStrings(h, doc)

\* the additions that reach the graph: those of entries naming a type
AppliedAdditions(h, doc, ov) ==
    UNION {AdditionsFor(h, ov, t) : t \in Types(h, doc)}

SameRecord(h, r1, r2) ==
    /\ TypeOfRecord(h, r1) = TypeOfRecord(h, r2)
    /\ Deep(h, Get(h, r1, kDependencies)) = Deep(h, Get(h, r2, kDependencies))

Degenerate(h, doc, ov) ==
    \/ ~HasResources(h, doc)
    \/ ov \in {Null, Undefined}
    \/ TypeOf(ov) # "object"

C6_IdentityOnDegenerateInput ==
    [][(pc = "start" /\ pc' = "applied" /\ Degenerate(heap, json, overrides)) =>
         (patched' = json /\ heap' = heap /\ ~threw')]_vars

\* a document with records has gone through applyOverrides with null overrides
C6_Witness ==
    /\ pc = "applied"
    /\ overrides = Null
    /\ Len(Records(heap, json)) > 0
    /\ patched = json

(***************************************************************************)
(* C7.  Neither applyOverrides nor buildDepsMaps mutates its arguments:    *)
(* every object that exists before a call (the document, its records,      *)
(* their dependency lists, the overrides) is the same after it, also for   *)
(* the records that received additions in the patched result.              *)
(***************************************************************************)
C7_ArgumentsNotMutated ==
    [][/\ Len(heap') >= Len(heap)
       /\ \A a \in 1..Len(heap) : heap'[a] = heap[a]]_vars

\* a record of the patched document has dependencies its original has not
C7_Witness ==
    /\ pc = "applied"
    /\ \E i \in 1..Len(Records(heap, json)) :
         /\ StringTyped(heap, Records(heap, json)[i])
         /\ StringDeps(heap, Records(heap, patched)[i]) #
              StringDeps(heap, Records(heap, json)[i])

(***************************************************************************)
(* C8.  For overrides that contain only addDependencies, applying them to  *)
(* the patched document again gives a document structurally equal to the   *)
(* patched document: the same records with the same dependency lists, also *)
(* with repeated types and non-string dependency entries.                  *)
(***************************************************************************)
AddOnly(h, ov) ==
    /\ IsObject(h, ov)
    /\ HasProp(OwnProps(h, ov), kAddDependencies)
    /\ ~HasProp(OwnProps(h, ov), kReplaceDependencies)

C8_AddIsIdempotent ==
    (pc = "reapplied" /\ AddOnly(heap, overrides)) =>
        /\ ~threw
        /\ Deep(heap, repatched) = Deep(heap, patched)

\* the second application made a new document, from one in which a record
\* with a non-string or repeated dependency entry was patched
C8_Witness ==
    /\ pc = "reapplied"
    /\ AddOnly(heap, overrides)
    /\ repatched # patched
    /\ \E i \in 1..Len(Records(heap, json)) :
         /\ ~NoDuplicates(DepEntries(heap, Records(heap, json)[i]))
         /\ Deep(heap, Records(heap, patched)[i]) #
              Deep(heap, Records(heap, json)[i])

(***************************************************************************)
(* C9.  buildDepsMaps skips a record entirely whenever its type is not a   *)
(* non-empty string (the empty string, a number, null, a missing type): no *)
(* key is created for it in either map and none of its dependencies is     *)
(* registered, so the maps are those of the records with a non-empty       *)
(* string type.                                                            *)
(***************************************************************************)
C9_SkipsNonEmptyStringTypesOnly ==
    (Built /\ HasResources(heap, raw)) =>
        /\ depsMap = ForwardMapOver(heap, raw, NonEmptyTyped)
        /\ reverseMap = ReverseMapOver(heap, raw, NonEmptyTyped)

(***************************************************************************)
(* C10.  Malformed parts never affect the well-formed rest: buildDepsMaps  *)
(* returns two empty maps when the document is null or its resources is    *)
(* not a sequence, and otherwise the maps of D are the maps of D with null *)
(* records, records with a non-string type and non-string dependency       *)
(* entries removed and a non-array dependencies field replaced by the      *)
(* empty list; and no input makes applyOverrides or buildDepsMaps fail.    *)
(***************************************************************************)
RECURSIVE CleanRecords(_, _)
CleanRecords(h, recs) ==
    IF recs = <<>> THEN [heap |-> h, vals |-> <<>>]
    ELSE IF ~StringTyped(h, Head(recs)) THEN CleanRecords(h, Tail(recs))
    ELSE LET r == Head(recs)
             deps == Alloc(h, ArrayObj(SelectSeq(DepEntries(h, r), IsString)))
             rec == Alloc(deps.heap,
                          PlainObj(<<Prop(kType, TypeOfRecord(h, r)),
                                     Prop(kDependencies, deps.val)>>))
             rest == CleanRecords(rec.heap, Tail(recs))
         IN  [heap |-> rest.heap, vals |-> <<rec.val>> \o rest.vals]

CleanDoc(h, doc) ==
    LET rs == CleanRecords(h, Records(h, doc))
        arr == Alloc(rs.heap, ArrayObj(rs.vals))
    IN  Alloc(arr.heap, PlainObj(<<Prop(kResources, arr.val)>>))

C10_MalformedPartsAreSkipped ==
    /\ ~threw
    /\ (Built /\ ~HasResources(heap, raw)) =>
         (depsMap = EmptyMap /\ reverseMap = EmptyMap)
    /\ (Built /\ HasResources(heap, raw)) =>
         LET clean == CleanDoc(heap, raw)
             m == buildDepsMaps(clean.heap, clean.val)
         IN  /\ ~m.threw
             /\ depsMap = m.depsMap
             /\ reverseMap = m.reverseMap

\* a document with a null record and a non-string dependency entry has been
\* patched and built into a graph that is not empty
C10_Witness ==
    /\ pc = "builtPatched"
    /\ patched # json
    /\ Null \in Range(Records(heap, json))
    /\ \E r \in Range(Records(heap, raw)) :
         \E d \in Range(DepEntries(heap, r)) : d.k # "string"
    /\ depsMap # EmptyMap

(***************************************************************************)
(* The App component.  What the server holds: the document of each         *)
(* version, the body of an error response, the overrides file and the      *)
(* versions index.  A response body is parsed to the same objects each     *)
(* time; nothing writes to them.                                           *)
(***************************************************************************)
sLowB == <<"b">>
sAb == <<"A", "b">>

MaxLoads == 3

ServerLatest ==
    AllocDoc(<<>>, [form |-> "document",
                    recs |-> << Rec(Str(sA), "array", <<Str(sC), Str(sB), Str(sLowB)>>),
                                Rec(Str(sB), "array", <<>>) >>])

ServerV1 ==
    AllocDoc(ServerLatest.heap,
             [form |-> "document",
              recs |-> << Rec(Str(sA), "array", <<Str(sB)>>),
                          Rec(Str(sD), "array", <<Str(sA)>>) >>])

ServerError == AllocDoc(ServerV1.heap, [form |-> "noResources", recs |-> <<>>])

ServerOverrides ==
    AllocOverrides(ServerError.heap,
                   [form |-> "object", add |-> "object", repl |-> FALSE,
                    entries |-> << [key |-> sA,
                                    adds |-> [isArr |-> TRUE, xs |-> <<Str(sPadD)>>]] >>])

ServerHeap == ServerOverrides.heap
ServerIndex == <<"v1">>

\* selectedVersion === "latest" ? LATEST_URL : VERSION_URL(selectedVersion)
DocumentOf(v) == IF v = "latest" THEN ServerLatest.val ELSE ServerV1.val

\* how a fetch and the parse of its body can end: a success status with a
\* JSON body, an error status with a JSON body, a rejected fetch, a body
\* that is no JSON
DocOutcomes == {"ok", "statusJson", "network", "parse"}
OverridesOutcomes == {"ok", "statusJson", "network", "parse"}
IndexOutcomes == {"ok", "network", "parse"}

\* whether `await fetch(url)` and `await res.json()` both return
Parsed(outcome) == outcome \in {"ok", "statusJson"}

BodyOf(v, outcome) == IF outcome = "ok" THEN DocumentOf(v) ELSE ServerError.val

\* String(e)
ErrorOf(outcome) ==
    IF outcome = "network" THEN "TypeError: Failed to fetch"
    ELSE "SyntaxError: Unexpected token"

Load(v, ov) == [v |-> v, ov |-> ov, cancelled |-> FALSE, done |-> FALSE]

\* a cleanup that cancels nothing
CancelLoadsNever(ls) == ls

\* return () => (cancelled = true)
CancelLoads(ls) == [i \in 1..Len(ls) |-> [ls[i] EXCEPT !.cancelled = TRUE]]

\* the load effect: the cleanup of its last run, then a new load
RunLoadEffect(ls, v, ov) == Append(CancelLoads(ls), Load(v, ov))

\* an effect that does not depend on overrides
OverridesEffectNone(ls, v, ov) == ls

\* }, [selectedVersion, overrides]): a new overrides value runs the effect
OverridesEffect(ls, v, ov) == RunLoadEffect(ls, v, ov)

\* an effect that leaves the selection alone
SelectionKept(qry, sel) == [query |-> qry, selectedType |-> sel]

\* setQuery(""); setSelectedType("")
SelectionReset(qry, sel) == [query |-> <<>>, selectedType |-> <<>>]

\* onInput: setQuery(e.target.value); setSelectedType("")
onInput(text) == [query |-> text, selectedType |-> <<>>]

\* a click that leaves the search field as it is
onClickKeepingQuery(t, qry) == [query |-> qry, selectedType |-> t]

\* onClick: setSelectedType(t); setQuery(t)
onClick(t, qry) == [query |-> t, selectedType |-> t]

\* what the component derives from its state on every render
allTypes == allTypesOf(depsMap, reverseMap)
filteredTypes == filteredTypesOf(allTypes, query)
activeType == activeTypeOf(selectedType, query)
dependsOn == Lookup(depsMap, activeType)
dependencyFor == Lookup(reverseMap, activeType)
Guidance == <<"P", "i", "c", "k", " ", "a", " ", "r", "e", "s", "o", "u", "r", "c", "e",
              " ", "t", "y", "p", "e">>
subtitle == IF activeType # <<>> THEN activeType ELSE Guidance
searchDisabled == loadingData \/ error # ""

\* what the user can type into the search field
Texts == {sLowB, <<" ", "A">>, sA, sBlank}

\* the state after the mount effects have run: the three fetches are out
AppInit ==
    /\ heap = ServerHeap
    /\ json = Undefined
    /\ overrides = Null
    /\ patched = Undefined
    /\ repatched = Undefined
    /\ raw = Null
    /\ depsMap = EmptyMap
    /\ reverseMap = EmptyMap
    /\ threw = FALSE
    /\ pc = "app"
    /\ selectedVersion = "latest"
    /\ availableVersions = <<>>
    /\ query = <<>>
    /\ selectedType = <<>>
    /\ loadingIndex = TRUE
    /\ loadingData = TRUE
    /\ error = ""
    /\ loads = <<Load("latest", Null)>>
    /\ indexFetch = "pending"
    /\ overridesFetch = "pending"
    /\ event = NoEvent
    /\ lastDocLoad = "none"

pipelineVars == <<json, patched, repatched, threw, pc>>

\* an effect that takes the body of any response as the overrides
OverridesAfterUnchecked(outcome) ==
    IF outcome = "ok" THEN ServerOverrides.val
    ELSE IF Parsed(outcome) THEN ServerError.val
    ELSE Null

\* if (!res.ok) setOverrides(null); setOverrides(json); catch: setOverrides(null)
OverridesAfter(outcome) == IF outcome = "ok" THEN ServerOverrides.val ELSE Null

\* a commit that clears the error
ErrorClearedOnCommit(err) == ""

\* the try branch of the document load never calls setError
ErrorAfterCommit(err) == err

\* the overrides fetch ends; a new overrides value runs the load effect
OverridesLoaded(outcome) ==
    /\ overridesFetch = "pending"
    /\ overridesFetch' = "done"
    /\ LET next == OverridesAfter(outcome)
       IN  /\ overrides' = next
           /\ event' = Event("overridesDone", "", next, FALSE, outcome, <<>>)
           /\ IF next # overrides
              THEN /\ loads' = OverridesEffect(loads, selectedVersion, next)
                   /\ loadingData' = TRUE
                   /\ query' = SelectionReset(query, selectedType).query
                   /\ selectedType' = SelectionReset(query, selectedType).selectedType
              ELSE UNCHANGED <<loads, loadingData, query, selectedType>>
    /\ UNCHANGED <<heap, raw, depsMap, reverseMap, selectedVersion,
                   availableVersions, loadingIndex, error, indexFetch,
                   lastDocLoad, pipelineVars>>

\* the versions index fetch ends
IndexLoaded(outcome) ==
    /\ indexFetch = "pending"
    /\ indexFetch' = "done"
    /\ IF outcome = "ok"
       THEN availableVersions' = ServerIndex /\ error' = error
       ELSE availableVersions' = availableVersions /\ error' = ErrorOf(outcome)
    /\ loadingIndex' = FALSE
    /\ event' = Event("indexDone", "", Undefined, FALSE, outcome, <<>>)
    /\ UNCHANGED <<heap, raw, overrides, depsMap, reverseMap, selectedVersion,
                   query, selectedType, loadingData, loads, overridesFetch,
                   lastDocLoad, pipelineVars>>

\* the dropdown handler, and the load effect that the new version runs
ChangeVersion(v) ==
    /\ ~loadingIndex
    /\ v \in {"latest"} \cup Range(availableVersions)
    /\ v # selectedVersion
    /\ Len(loads) < MaxLoads
    /\ selectedVersion' = v
    /\ loads' = RunLoadEffect(loads, v, overrides)
    /\ loadingData' = TRUE
    /\ query' = SelectionReset(query, selectedType).query
    /\ selectedType' = SelectionReset(query, selectedType).selectedType
    /\ event' = Event("versionChanged", v, overrides, FALSE, "", query)
    /\ UNCHANGED <<heap, raw, overrides, depsMap, reverseMap, availableVersions,
                   loadingIndex, error, indexFetch, overridesFetch,
                   lastDocLoad, pipelineVars>>

\* the fetch of load i ends: the rest of the async function of the effect
DocLoaded(i, outcome) ==
    /\ i \in 1..Len(loads)
    /\ ~loads[i].done
    /\ loads' = [loads EXCEPT ![i].done = TRUE]
    /\ event' = Event("docDone", loads[i].v, loads[i].ov, loads[i].cancelled,
                      outcome, <<>>)
    /\ LET res == applyOverrides(heap, BodyOf(loads[i].v, outcome), loads[i].ov)
           m == buildDepsMaps(res.heap, res.val)
       IN  IF loads[i].cancelled
           THEN UNCHANGED <<heap, raw, depsMap, reverseMap, error, loadingData,
                            lastDocLoad>>
           ELSE /\ loadingData' = FALSE
                /\ lastDocLoad' = outcome
                /\ IF Parsed(outcome) /\ ~res.threw
                   THEN /\ heap' = res.heap
                        /\ raw' = res.val
                        /\ depsMap' = m.depsMap
                        /\ reverseMap' = m.reverseMap
                        /\ error' = ErrorAfterCommit(error)
                   ELSE /\ error' = ErrorOf(outcome)
                        /\ UNCHANGED <<heap, raw, depsMap, reverseMap>>
    /\ UNCHANGED <<overrides, selectedVersion, availableVersions, query,
                   selectedType, loadingIndex, indexFetch, overridesFetch,
                   pipelineVars>>

selectionFrame == <<heap, raw, overrides, depsMap, reverseMap, selectedVersion,
                    availableVersions, loadingIndex, loadingData, error, loads,
                    indexFetch, overridesFetch, lastDocLoad, pipelineVars>>

\* the user types into the search field
Input(text) ==
    /\ ~searchDisabled
    /\ query' = onInput(text).query
    /\ selectedType' = onInput(text).selectedType
    /\ event' = Event("input", "", Undefined, FALSE, "", text)
    /\ UNCHANGED selectionFrame

\* the user clicks a row of the results list
ClickType(t) ==
    /\ \E i \in 1..Len(filteredTypes) : filteredTypes[i] = t
    /\ query' = onClick(t, query).query
    /\ selectedType' = onClick(t, query).selectedType
    /\ event' = Event("click", "", Undefined, FALSE, "list", t)
    /\ UNCHANGED selectionFrame

\* the user clicks a neighbor pill of the details panel
ClickPill(t) ==
    /\ t \in Range(dependsOn.val) \cup Range(dependencyFor.val)
    /\ query' = onClick(t, query).query
    /\ selectedType' = onClick(t, query).selectedType
    /\ event' = Event("click", "", Undefined, FALSE, "pill", t)
    /\ UNCHANGED selectionFrame

Clickable == Range(allTypes)

\* the loads there can be: those of the version changes, and the one that
\* the arrival of the overrides starts
LoadIds == 1..(MaxLoads + 1)

AppNext ==
    \/ \E o \in OverridesOutcomes : OverridesLoaded(o)
    \/ \E o \in IndexOutcomes : IndexLoaded(o)
    \/ \E v \in {"latest"} \cup Range(ServerIndex) : ChangeVersion(v)
    \/ \E i \in LoadIds, o \in DocOutcomes : DocLoaded(i, o)
    \/ \E text \in Texts : Input(text)
    \/ \E t \in Clickable : ClickType(t)
    \/ \E t \in Clickable : ClickPill(t)

AppSpec == AppInit /\ [][AppNext]_vars

(***************************************************************************)
(* The query surface over one committed document: the document is fetched, *)
(* committed as it is, and the user types and clicks.                      *)
(***************************************************************************)
MaxQueryRecords == 2

QueryRecordShapes ==
    { Rec(Str(sA), "array", <<Str(sB), Str(sLowB)>>),
      Rec(Str(sAb), "array", <<Str(sA)>>),
      Rec(Str(sLowB), "array", <<Str(sBold), Str(sC)>>),
      Rec(Str(sB), "array", <<>>),
      Rec(Str(sC), "array", <<Str(sAb), Num(7)>>),
      Rec(Str(sEmpty), "array", <<Str(sB)>>) }

QueryDocShapes ==
    {[form |-> "document", recs |-> r] :
        r \in BoundedSeq(QueryRecordShapes, MaxQueryRecords)}

QueryInit ==
    \E d \in QueryDocShapes :
        LET doc == AllocDoc(<<>>, d)
        IN  /\ heap = doc.heap
            /\ json = doc.val
            /\ overrides = Null
            /\ patched = Undefined
            /\ repatched = Undefined
            /\ raw = Null
            /\ depsMap = EmptyMap
            /\ reverseMap = EmptyMap
            /\ threw = FALSE
            /\ pc = "fetched"
            /\ AppCells

\* if (!cancelled) setRaw(json), then setLoadingData(false)
Commit ==
    /\ pc = "fetched"
    /\ pc' = "shown"
    /\ raw' = json
    /\ LET m == buildDepsMaps(heap, json)
       IN  /\ depsMap' = m.depsMap
           /\ reverseMap' = m.reverseMap
           /\ threw' = m.threw
    /\ loadingData' = FALSE
    /\ lastDocLoad' = "ok"
    /\ event' = Event("docDone", selectedVersion, Undefined, FALSE, "ok", <<>>)
    /\ UNCHANGED <<heap, json, overrides, patched, repatched, selectedVersion,
                   availableVersions, query, selectedType, loadingIndex, error,
                   loads, indexFetch, overridesFetch>>

QueryTypes == {sEmpty, sA, sAb, sLowB, sB, sBold, sC}

QueryNext ==
    \/ Commit
    \/ \E text \in Texts : Input(text)
    \/ \E t \in QueryTypes : ClickType(t)
    \/ \E t \in QueryTypes : ClickPill(t)

QuerySpec == QueryInit /\ [][QueryNext]_vars

\* C12: in every state allTypes holds exactly the keys of the forward map
\* and the keys of the reverse map, and it is strictly ascending under the
\* comparison it was sorted with, so that no identity occurs twice.
C12_AllTypesIsSortedUnion ==
    /\ Range(allTypes) = DOMAIN depsMap \cup DOMAIN reverseMap
    /\ \A i, j \in 1..Len(allTypes) :
           i < j => localeCompare(allTypes[i], allTypes[j]) < 0

\* a graph whose keys differ in case only and whose list has four entries
C12_Witness ==
    /\ pc = "shown"
    /\ Len(allTypes) >= 4
    /\ \E i \in 1..(Len(allTypes) - 1) :
           allTypes[i] = sLowB /\ allTypes[i + 1] = sB

\* t contains q as a substring when case is ignored
ContainsIgnoringCase(t, q) ==
    \E i \in 1..(Len(t) + 1), j \in 0..Len(t) :
        SubSeq(ToLowerCase(t), i, j) = ToLowerCase(q)

Matching == {i \in 1..Len(allTypes) : ContainsIgnoringCase(allTypes[i], Trim(query))}

\* the k-th smallest index of a set of indices
Nth(S, k) == CHOOSE i \in S : Cardinality({j \in S : j <= i}) = k

\* C13: in every state filteredTypes is allTypes restricted, in the same
\* order, to the identities that contain the trimmed query ignoring case;
\* for an empty or blank query it is allTypes in full.
C13_FilteredIsMatchingSubsequence ==
    /\ Len(filteredTypes) = Cardinality(Matching)
    /\ \A k \in 1..Len(filteredTypes) : filteredTypes[k] = allTypes[Nth(Matching, k)]
    /\ Trim(query) = <<>> => filteredTypes = allTypes

\* a padded upper-case query that keeps some of the types and drops others
C13_Witness ==
    /\ event.type = "input"
    /\ query = <<" ", "A">>
    /\ Len(filteredTypes) >= 2
    /\ Len(filteredTypes) < Len(allTypes)

\* a blank query over a list of more than two types
C13_WitnessBlank ==
    /\ event.type = "input"
    /\ query = sBlank
    /\ Len(filteredTypes) >= 4

(***************************************************************************)
(* Claims about the App component, checked under AppSpec.                  *)
(***************************************************************************)
StrictlyAscending(seq) ==
    \A i, j \in 1..Len(seq) : i < j => localeCompare(seq[i], seq[j]) < 0

TotalLookup(m, t, res) ==
    /\ ~res.threw
    /\ (t = <<>> \/ t \notin DOMAIN m) => res.val = <<>>
    /\ (t # <<>> /\ t \in DOMAIN m) =>
           Range(res.val) = m[t] /\ StrictlyAscending(res.val)

\* C11: in every state dependsOn and dependencyFor are computed without a
\* failure; they are empty when the active type is empty or is no key of
\* the map, and otherwise hold exactly the members of the key's set in
\* strictly ascending order.
C11_LookupsAreTotal ==
    /\ TotalLookup(depsMap, activeType, dependsOn)
    /\ TotalLookup(reverseMap, activeType, dependencyFor)

\* a type picked from the list of one version while the next version, where
\* it is no key, was loading; and a picked key with two neighbors
C11_Witness ==
    /\ lastDocLoad = "ok"
    /\ selectedType # <<>>
    /\ selectedType \notin DOMAIN depsMap
    /\ selectedType \notin DOMAIN reverseMap

C11_WitnessKey ==
    /\ selectedType \in DOMAIN depsMap
    /\ Len(dependsOn.val) >= 3

\* the step in which the fetch of load i ends
DocStep(i) ==
    /\ i \in 1..Len(loads)
    /\ Len(loads') = Len(loads)
    /\ ~loads[i].done
    /\ loads'[i].done

\* C14: a step that ends a load whose version is not the selected version
\* leaves the graph state, error and loadingData as they are.
C14_StaleResponseDiscarded ==
    [][\A i \in 1..Len(loads) :
          (DocStep(i) /\ loads[i].v # selectedVersion) =>
              UNCHANGED <<heap, raw, depsMap, reverseMap, error, loadingData>>]_vars

\* the response for the version left behind arrives while the load of the
\* selected version is still out
C14_Witness ==
    /\ event.type = "docDone"
    /\ event.v # selectedVersion
    /\ event.outcome = "ok"
    /\ loadingData
    /\ \E i \in 1..Len(loads) : loads[i].v = selectedVersion /\ ~loads[i].done

\* the step in which load i is committed as graph state
Commits(i) ==
    /\ DocStep(i)
    /\ ~loads[i].cancelled
    /\ Parsed(event'.outcome)

\* C15: whenever a load is committed, the overrides value it was started
\* with is the current one, and what is committed is the response patched
\* with the current overrides.
C15_CommittedWithCurrentOverrides ==
    [][\A i \in 1..Len(loads) :
          Commits(i) =>
              /\ loads[i].ov = overrides
              /\ LET res == applyOverrides(heap, BodyOf(loads[i].v, event'.outcome),
                                           overrides)
                 IN  Deep(heap', raw') = Deep(res.heap, res.val)]_vars

\* a load started with the overrides in hand is committed after the load
\* started without them has ended and was discarded
C15_Witness ==
    /\ event.type = "docDone"
    /\ ~event.cancelled
    /\ event.outcome = "ok"
    /\ overrides # Null
    /\ event.ov = overrides
    /\ \E i \in 1..Len(loads) :
           loads[i].ov = Null /\ loads[i].done /\ loads[i].cancelled

GraphEmpty == depsMap = EmptyMap /\ reverseMap = EmptyMap /\ allTypes = <<>>

\* C16: while the last document load that was not discarded is a failed
\* one, the application is in the error state and the graph is empty.
C16_GraphEmptyAfterFailedLoad ==
    lastDocLoad \in {"statusJson", "network", "parse"} =>
        error # "" /\ GraphEmpty

\* C17: a load that ends in a network error, a non-success status or a
\* parse exception, and is not discarded, sets the error state and its
\* response is not committed as graph state.
C17_FailedLoadSetsErrorOnly ==
    (event.type = "docDone" /\ ~event.cancelled /\ event.outcome # "ok") =>
        error # "" /\ raw # BodyOf(event.v, event.outcome)

\* C18: after an input event the query is the typed text and nothing is
\* selected; while nothing is selected the active type is empty, both
\* lookups are empty and the subtitle is the guidance text.
C18_TypingIsNotSelecting ==
    /\ event.type = "input" => query = event.text /\ selectedType = <<>>
    /\ selectedType = <<>> =>
           /\ activeType = <<>>
           /\ dependsOn.val = <<>>
           /\ dependencyFor.val = <<>>
           /\ subtitle = Guidance

\* the name of a type that has dependencies is typed in full
C18_Witness ==
    /\ event.type = "input"
    /\ query = sA
    /\ sA \in DOMAIN depsMap
    /\ depsMap[sA] # {}

\* C19: after a click on t both selectedType and query are t, and in every
\* state a non-empty selectedType equals the query.
C19_PickedKeepsQuery ==
    /\ event.type = "click" => selectedType = event.text /\ query = event.text
    /\ selectedType # <<>> => query = selectedType

\* a pill is clicked after a second load was started
C19_Witness ==
    /\ event.type = "click"
    /\ event.outcome = "pill"
    /\ selectedType # <<>>
    /\ Len(loads) >= 2

\* C20: a step that changes selectedVersion ends with query and
\* selectedType empty, and a step that takes either of them from empty to
\* non-empty is an input or a click.
C20_VersionChangeResetsSelection ==
    [][/\ selectedVersion' # selectedVersion =>
              query' = <<>> /\ selectedType' = <<>>
       /\ (query = <<>> /\ selectedType = <<>>
             /\ (query' # <<>> \/ selectedType' # <<>>)) =>
              event'.type \in {"input", "click"}]_vars

\* the version is changed while the search field holds text
C20_Witness ==
    /\ event.type = "versionChanged"
    /\ event.text # <<>>
    /\ query = <<>>
    /\ selectedType = <<>>

\* C21: in every state a non-empty selectedType is one of allTypes of the
\* graph held in state.
C21_SelectionIsAType ==
    selectedType # <<>> => \E i \in 1..Len(allTypes) : allTypes[i] = selectedType

\* the step in which an asynchronous load ends
LoadCompletes ==
    \/ overridesFetch = "pending" /\ overridesFetch' = "done"
    \/ indexFetch = "pending" /\ indexFetch' = "done"
    \/ \E i \in 1..Len(loads) : DocStep(i)

\* C23: a step in which a load ends leaves query and selectedType as they
\* are, and a step that changes either of them is an input, a click or a
\* change of the version.
C23_LoadCompletionKeepsSelection ==
    [][/\ LoadCompletes => UNCHANGED <<query, selectedType>>
       /\ (query' # query \/ selectedType' # selectedType) =>
              event'.type \in {"input", "click", "versionChanged"}]_vars

\* the step in which the overrides load ends in a failure
OverridesFail ==
    /\ overridesFetch = "pending"
    /\ overridesFetch' = "done"
    /\ event'.outcome # "ok"

\* C24: a failed overrides load leaves overrides null and does not touch
\* error, loadingData, the loads in flight or the graph state; a document
\* committed after it is the fetched document itself, unchanged.
C24_FailedOverridesLoadIsHarmless ==
    [][/\ OverridesFail =>
              overrides' = Null /\ UNCHANGED <<error, loadingData, loads, raw>>
       /\ \A i \in 1..Len(loads) :
              (Commits(i) /\ overridesFetch = "done" /\ overrides = Null
                 /\ event'.outcome = "ok") =>
                  raw' = DocumentOf(loads[i].v) /\ heap' = heap]_vars

\* the overrides load has failed and the document of v1 is committed
C24_Witness ==
    /\ overridesFetch = "done"
    /\ overrides = Null
    /\ event.type = "docDone"
    /\ ~event.cancelled
    /\ event.outcome = "ok"
    /\ selectedVersion = "v1"
    /\ raw = DocumentOf("v1")
    /\ error = ""

\* C25: a step that starts with error set ends with error set and the
\* search field disabled.
C25_ErrorIsSticky ==
    [][error # "" => error' # "" /\ searchDisabled']_vars

\* the error is set, the version was changed and its document was
\* committed
C25_Witness ==
    /\ error # ""
    /\ event.type = "docDone"
    /\ ~event.cancelled
    /\ event.outcome = "ok"
    /\ selectedVersion = "v1"
    /\ raw # Null
    /\ ~loadingData

\* the edges a map holds: the sum of the sizes of its sets
RECURSIVE EdgesOver(_, _)
EdgesOver(m, keys) ==
    IF keys = {} THEN 0
    ELSE LET k == CHOOSE x \in keys : TRUE
         IN  Cardinality(m[k]) + EdgesOver(m, keys \ {k})

Edges(m) == EdgesOver(m, DOMAIN m)

\* C26: in every state d is in the forward set of a exactly when a is in
\* the reverse set of d, and both maps hold the same number of edges.
C26_ForwardAndReverseAgree ==
    /\ \A a \in DOMAIN depsMap : \A d \in depsMap[a] :
           d \in DOMAIN reverseMap /\ a \in reverseMap[d]
    /\ \A d \in DOMAIN reverseMap : \A a \in reverseMap[d] :
           a \in DOMAIN depsMap /\ d \in depsMap[a]
    /\ Edges(depsMap) = Edges(reverseMap)

\* a graph built without a failure that has two forward keys and three
\* edges, two of them leaving one type
C26_Witness ==
    /\ Built
    /\ ~threw
    /\ Edges(depsMap) >= 3
    /\ \E a \in DOMAIN depsMap : Cardinality(depsMap[a]) >= 2
    /\ Cardinality(DOMAIN depsMap) >= 2

NeighborsAreTypes(m) ==
    \A t \in DOMAIN depsMap \cup DOMAIN reverseMap \cup Range(allTypes) \cup {query} :
        \A i \in 1..Len(Lookup(m, t).val) :
            \E j \in 1..Len(allTypes) : allTypes[j] = Lookup(m, t).val[i]

\* C27: in every state the forward keys are reverse keys, every identity
\* that a lookup returns is one of allTypes, and after a click on a pill
\* the selected type is one of allTypes.
C27_ClosedUnderNavigation ==
    /\ DOMAIN depsMap \subseteq DOMAIN reverseMap
    /\ NeighborsAreTypes(depsMap)
    /\ NeighborsAreTypes(reverseMap)
    /\ (event.type = "click" /\ event.outcome = "pill") =>
           \E j \in 1..Len(allTypes) : allTypes[j] = selectedType

\* a pill of a dependency that is no record type of the document is clicked
C27_Witness ==
    /\ event.type = "click"
    /\ event.outcome = "pill"
    /\ selectedType \in DOMAIN reverseMap
    /\ selectedType \notin DOMAIN depsMap

(***************************************************************************)
(* The App component when every fetch succeeds.  A fetch that is out ends: *)
(* the overrides fetch, the index fetch, and, while document fetches are   *)
(* out, one of them.  The user stops changing the version once MaxLoads    *)
(* loads were started.                                                     *)
(***************************************************************************)
ConvergeNext ==
    \/ OverridesLoaded("ok")
    \/ IndexLoaded("ok")
    \/ \E v \in {"latest"} \cup Range(ServerIndex) : ChangeVersion(v)
    \/ \E i \in LoadIds : DocLoaded(i, "ok")
    \/ \E text \in Texts : Input(text)
    \/ \E t \in Clickable : ClickType(t)
    \/ \E t \in Clickable : ClickPill(t)

\* what a step of DocLoaded does to loads, and no other step does: the
\* fetch of a load that is out ends
DocEnds ==
    \E i \in LoadIds :
        /\ i <= Len(loads)
        /\ ~loads[i].done
        /\ loads' = [loads EXCEPT ![i].done = TRUE]

ConvergeSpec ==
    /\ AppInit
    /\ [][ConvergeNext]_vars
    /\ WF_vars(OverridesLoaded("ok"))
    /\ WF_vars(IndexLoaded("ok"))
    /\ WF_loads(DocEnds)

\* buildDepsMaps(applyOverrides(document of selectedVersion, fetched overrides))
Expected ==
    LET res == applyOverrides(heap, DocumentOf(selectedVersion), ServerOverrides.val)
    IN  buildDepsMaps(res.heap, res.val)

Converged ==
    /\ ~loadingData
    /\ depsMap = Expected.depsMap
    /\ reverseMap = Expected.reverseMap

\* C22: when every fetch completes successfully and the version changes
\* stop, from some state on loadingData is false and the graph is the one
\* built from the document of the selected version patched with the
\* fetched overrides.
C22_Converges == <>[]Converged

\* v1 is shown patched after a superseded load has ended and every fetch
\* is done
C22_Witness ==
    /\ Converged
    /\ selectedVersion = "v1"
    /\ overrides = ServerOverrides.val
    /\ indexFetch = "done"
    /\ Len(loads) >= 3
    /\ \A i \in 1..Len(loads) : loads[i].done
    /\ \E i \in 1..Len(loads) : loads[i].cancelled /\ event.v = loads[i].v /\ event.cancelled

(***************************************************************************)
(* The upload variant of App, the second component of App.jsx.  Its cells  *)
(* are kept in the variables of the same name, selected in selectedType    *)
(* and loadError in error; loads holds the fetch of the bundled document.  *)
(* The documents are those of ServerHeap, whose types and dependency       *)
(* entries are strings.                                                    *)
(***************************************************************************)
SuggestionLimit == 50

\* uniqSorted(arr), a sequence of strings
uniqSorted(arr) ==
    LET sorted == SortLocale(NewSet(arr))
    IN  [i \in 1..Len(sorted) |-> sorted[i].s]

\* for (const d of list) { if (!d) continue; ... }
RECURSIVE UploadAddDeps(_, _, _)
UploadAddDeps(list, t, m) ==
    IF list = <<>> THEN m
    ELSE LET d == Head(list)
             m1 == IF ~Truthy(d) THEN m
                   ELSE Maps(AddMember(m.depsMap, t, d.s),
                             AddMember(EnsureKey(m.reverseMap, d.s), d.s, t),
                             m.threw)
         IN  UploadAddDeps(Tail(list), t, m1)

\* for (const r of raw.resources) { const t = r?.type; if (!t) continue; ... }
RECURSIVE UploadLoop(_, _, _)
UploadLoop(h, recs, m) ==
    IF recs = <<>> THEN m
    ELSE LET r == Head(recs)
             t == IF Nullish(r) THEN Undefined ELSE Get(h, r, kType)
             d == Get(h, r, kDependencies)
             list == IF IsArray(h, d) THEN Elems(h, d) ELSE <<>>
             m1 == Maps(EnsureKey(m.depsMap, t.s), m.reverseMap, m.threw)
             m2 == UploadAddDeps(list, t.s, m1)
         IN  UploadLoop(h, Tail(recs),
                        IF ~Truthy(t) THEN m
                        ELSE Maps(m2.depsMap, EnsureKey(m2.reverseMap, t.s), m2.threw))

\* the useMemo over raw: depsMap and reverseDepsMap
uploadMaps(h, doc) ==
    IF ~Truthy(doc) THEN Maps(EmptyMap, EmptyMap, FALSE)
    ELSE IF ~Truthy(Get(h, doc, kResources)) \/ ~IsArray(h, Get(h, doc, kResources))
    THEN Maps(EmptyMap, EmptyMap, FALSE)
    ELSE UploadLoop(h, Elems(h, Get(h, doc, kResources)),
                    Maps(EmptyMap, EmptyMap, FALSE))

\* types: uniqSorted(Array.from(new Set([...deps.keys(), ...rev.keys()])))
types == uniqSorted(NewSet(Spread(DOMAIN depsMap) \o Spread(DOMAIN reverseMap)))

normalizedQuery == normalizeType(query)
normalizedSelected == normalizeType(selectedType)

\* arr.slice(0, n)
Slice(arr, n) == SubSeq(arr, 1, IF Len(arr) < n THEN Len(arr) ELSE n)

suggestions ==
    IF normalizedQuery = <<>> THEN Slice(types, SuggestionLimit)
    ELSE Slice(FilterIncluding(types, ToLowerCase(normalizedQuery)), SuggestionLimit)

\* const activeType = normalizedSelected || normalizedQuery
uploadActiveType ==
    IF normalizedSelected # <<>> THEN normalizedSelected ELSE normalizedQuery

\* if (!activeType) return []; uniqSorted(Array.from(m.get(activeType) || []))
UploadLookup(m, t) ==
    IF t = <<>> THEN <<>>
    ELSE IF t \in DOMAIN m THEN uniqSorted(Spread(m[t]))
    ELSE <<>>

outgoing == UploadLookup(depsMap, uploadActiveType)
incoming == UploadLookup(reverseMap, uploadActiveType)

\* what the user can choose in the file dialog: nothing, a file that is no
\* JSON, a JSON object without resources, and two documents
UploadFiles == {"none", "notJson", "noResources", "latest", "v1"}

FileJson(f) ==
    IF f = "latest" THEN ServerLatest.val
    ELSE IF f = "v1" THEN ServerV1.val
    ELSE ServerError.val

UploadInit ==
    /\ heap = ServerHeap
    /\ json = ServerLatest.val
    /\ overrides = Null
    /\ patched = Undefined
    /\ repatched = Undefined
    /\ raw = Null
    /\ depsMap = EmptyMap
    /\ reverseMap = EmptyMap
    /\ threw = FALSE
    /\ pc = "upload"
    /\ selectedVersion = "latest"
    /\ availableVersions = <<>>
    /\ query = <<>>
    /\ selectedType = <<>>
    /\ loadingIndex = FALSE
    /\ loadingData = FALSE
    /\ error = ""
    /\ loads = <<Load("latest", Null)>>
    /\ indexFetch = "idle"
    /\ overridesFetch = "idle"
    /\ event = NoEvent
    /\ lastDocLoad = "none"

uploadFrame == <<heap, json, overrides, patched, repatched, threw, pc,
                 selectedVersion, availableVersions, loadingIndex, loadingData,
                 indexFetch, overridesFetch, lastDocLoad>>

\* setRaw(doc) and the useMemo over raw
SetRaw(doc) ==
    /\ raw' = doc
    /\ depsMap' = uploadMaps(heap, doc).depsMap
    /\ reverseMap' = uploadMaps(heap, doc).reverseMap

\* the fetch of the bundled document ends
AutoLoaded(outcome) ==
    /\ ~loads[1].done
    /\ loads' = [loads EXCEPT ![1].done = TRUE]
    /\ event' = Event("docDone", "latest", Null, FALSE, outcome, <<>>)
    /\ IF outcome = "ok" THEN SetRaw(json) ELSE UNCHANGED <<raw, depsMap, reverseMap>>
    /\ UNCHANGED <<query, selectedType, error, uploadFrame>>

\* onUpload(file), with the read of the file
Upload(f) ==
    /\ query' = <<>>
    /\ selectedType' = <<>>
    /\ event' = Event("upload", "", Undefined, FALSE, f, <<>>)
    /\ IF f = "none"
       THEN error' = "" /\ UNCHANGED <<raw, depsMap, reverseMap>>
       ELSE IF f = "notJson"
       THEN error' = "Unexpected token" /\ SetRaw(Null)
       ELSE IF ~Truthy(FileJson(f)) \/ ~IsArray(heap, Get(heap, FileJson(f), kResources))
       THEN error' = "JSON must contain a top-level 'resources' array." /\ SetRaw(Null)
       ELSE error' = "" /\ SetRaw(FileJson(f))
    /\ UNCHANGED <<loads, uploadFrame>>

uploadSelectionFrame == <<raw, depsMap, reverseMap, error, loads, uploadFrame>>

\* the search input's onChange
Change(text) ==
    /\ Truthy(raw)
    /\ query' = text
    /\ selectedType' = <<>>
    /\ event' = Event("input", "", Undefined, FALSE, "", text)
    /\ UNCHANGED uploadSelectionFrame

\* the Search button: setSelected(normalizeType(query))
Search ==
    /\ Truthy(raw)
    /\ selectedType' = normalizeType(query)
    /\ query' = query
    /\ event' = Event("search", "", Undefined, FALSE, "", query)
    /\ UNCHANGED uploadSelectionFrame

\* the Clear button
Clear ==
    /\ Truthy(raw)
    /\ query' = <<>>
    /\ selectedType' = <<>>
    /\ event' = Event("clear", "", Undefined, FALSE, "", <<>>)
    /\ UNCHANGED uploadSelectionFrame

\* onPick(t) from the suggestions
Pick(t) ==
    /\ Truthy(raw)
    /\ \E i \in 1..Len(suggestions) : suggestions[i] = t
    /\ selectedType' = t
    /\ query' = t
    /\ event' = Event("click", "", Undefined, FALSE, "list", t)
    /\ UNCHANGED uploadSelectionFrame

UploadTypes == {sA, sB, sLowB, sC, sD}

UploadNext ==
    \/ \E o \in DocOutcomes : AutoLoaded(o)
    \/ \E f \in UploadFiles : Upload(f)
    \/ \E text \in Texts : Change(text)
    \/ Search
    \/ Clear
    \/ \E t \in UploadTypes : Pick(t)

UploadSpec == UploadInit /\ [][UploadNext]_vars

\* C28: in the upload variant, while selected is empty the active type is
\* empty and the outgoing and incoming lists are empty, whatever the query
\* holds.
C28_UploadTypingIsNotSelecting ==
    selectedType = <<>> =>
        uploadActiveType = <<>> /\ outgoing = <<>> /\ incoming = <<>>

====
